---------------------------- MODULE Spec2Model ----------------------------
(***************************************************************************)
(* A model of src/main.py (class TwitterBot): the feed-monitoring loop     *)
(* monitor_feed with its per-item action sequence, the credential-failover *)
(* generation helper _generate_with_retry / switch_to_next_api_key, the    *)
(* response post-processing (clean_text, ensure_keywords_included) and the *)
(* processed-tweets persistence.                                           *)
(*                                                                         *)
(* Texts are sequences of Unicode code points.  Python's None is NoneVal.  *)
(***************************************************************************)
EXTENDS Integers, Sequences, FiniteSets, TLC

(***************************************************************************)
(* Bounds of the model.                                                    *)
(***************************************************************************)
\* longest text the generation backend returns
MaxLen == 2
\* longest mandatory keyword
MaxKwLen == 1
\* most mandatory keywords
MaxKw == 2
\* longest source (tweet) text
MaxTweetLen == 1

(***************************************************************************)
(* Text helpers: code points and the str methods the program uses.         *)
(***************************************************************************)
NoneVal == <<-1>>

\* ' '  '"'  'A'  'a'  U+AC00 (Hangul GA)  U+1F680 (rocket emoji)
Alphabet == {32, 34, 65, 97, 44032, 128640}

IsSpace(c) == c \in {9, 10, 11, 12, 13, 32}

\* the ASCII part of str.lower(); the other code points used here have no
\* lower-case mapping
LowerChar(c) == IF 65 <= c /\ c <= 90 THEN c + 32 ELSE c

Lower(s) == [i \in 1..Len(s) |-> LowerChar(s[i])]

\* needle in hay
Contains(hay, needle) ==
    \E i \in 0..(Len(hay) - Len(needle)) :
        SubSeq(hay, i + 1, i + Len(needle)) = needle

SetMin(S) == CHOOSE x \in S : \A y \in S : x <= y

SetMax(S) == CHOOSE x \in S : \A y \in S : x >= y

\* s without its leading characters that are in chars
LStrip(s, chars) ==
    LET keep == {i \in 1..Len(s) : s[i] \notin chars}
    IN  IF keep = {} THEN <<>> ELSE SubSeq(s, SetMin(keep), Len(s))

\* s without its trailing characters that are in chars
RStrip(s, chars) ==
    LET keep == {i \in 1..Len(s) : s[i] \notin chars}
    IN  IF keep = {} THEN <<>> ELSE SubSeq(s, 1, SetMax(keep))

\* the whitespace str.strip() removes, among the code points used here
Whitespace == {9, 10, 11, 12, 13, 32}

\* str.strip()
Strip(s) == RStrip(LStrip(s, Whitespace), Whitespace)

\* str.strip('"')
StripQuotes(s) == RStrip(LStrip(s, {34}), {34})

RECURSIVE Join(_, _)
Join(sep, list) ==
    IF list = <<>> THEN <<>>
    ELSE IF Len(list) = 1 THEN list[1]
    ELSE list[1] \o sep \o Join(sep, Tail(list))

\* all sequences over S of length at most n
RECURSIVE SeqsUpTo(_, _)
SeqsUpTo(S, n) ==
    IF n = 0 THEN {<<>>}
    ELSE LET shorter == SeqsUpTo(S, n - 1)
         IN  shorter \cup {Append(s, c) : s \in {t \in shorter : Len(t) = n - 1}, c \in S}

BackendTexts == SeqsUpTo(Alphabet, MaxLen)

\* 'A'  U+1F680: the characters of the mandatory keywords
KeywordAlphabet == {65, 128640}

\* get_required_keywords: each keyword is stripped and non-empty; a keyword
\* may be entered twice
Keywords == {k \in SeqsUpTo(KeywordAlphabet, MaxKwLen) : k # <<>> /\ Strip(k) = k}

KeywordLists == SeqsUpTo(Keywords, MaxKw)

\* 'a'  U+AC00: the characters of the source texts
TweetAlphabet == {97, 44032}

TweetTexts == SeqsUpTo(TweetAlphabet, MaxTweetLen)

(***************************************************************************)
(* detect_language                                                         *)
(***************************************************************************)
IsHangul(c) == 44032 <= c /\ c <= 55203

IsLatin(c) == (65 <= c /\ c <= 90) \/ (97 <= c /\ c <= 122)

IsDigit(c) == 48 <= c /\ c <= 57

\* \w of the re module on str, for the code points used here
IsWord(c) == IsHangul(c) \/ IsLatin(c) \/ IsDigit(c) \/ c = 95

\* length of the longest prefix of s without whitespace: the match of \S*
NonSpaceRun(s) ==
    LET out == {i \in 1..Len(s) : IsSpace(s[i])}
    IN  IF out = {} THEN Len(s) ELSE SetMin(out) - 1

\* length of the longest prefix of s made of word characters: the match of \w*
WordRun(s) ==
    LET out == {i \in 1..Len(s) : ~IsWord(s[i])}
    IN  IF out = {} THEN Len(s) ELSE SetMin(out) - 1

HasPrefix(s, p) == Len(s) >= Len(p) /\ SubSeq(s, 1, Len(p)) = p

\* length of the match of  http\S+|www\S+|@\w+|#\w+  at the head of s, 0 if none
LinkMatchLen(s) ==
    LET http == <<104, 116, 116, 112>>
        www  == <<119, 119, 119>>
        after(n) == SubSeq(s, n + 1, Len(s))
    IN  IF HasPrefix(s, http) /\ NonSpaceRun(after(4)) > 0
        THEN 4 + NonSpaceRun(after(4))
        ELSE IF HasPrefix(s, www) /\ NonSpaceRun(after(3)) > 0
        THEN 3 + NonSpaceRun(after(3))
        ELSE IF s # <<>> /\ Head(s) \in {64, 35} /\ WordRun(Tail(s)) > 0
        THEN 1 + WordRun(Tail(s))
        ELSE 0

\* re.sub(r'http\S+|www\S+|@\w+|#\w+', '', text)
RECURSIVE RemoveLinks(_)
RemoveLinks(s) ==
    IF s = <<>> THEN <<>>
    ELSE LET m == LinkMatchLen(s)
         IN  IF m > 0 THEN RemoveLinks(SubSeq(s, m + 1, Len(s)))
             ELSE <<Head(s)>> \o RemoveLinks(Tail(s))

IsWordOrSpace(c) == IsWord(c) \/ IsSpace(c)

\* a variant whose first threshold is inclusive (>= 0.3)
detect_language_inclusive(text) ==
    IF text = NoneVal \/ text = <<>> THEN "korean"
    ELSE LET clean_text1   == SelectSeq(RemoveLinks(text), IsWordOrSpace)
             korean_chars  == Len(SelectSeq(clean_text1, IsHangul))
             english_chars == Len(SelectSeq(clean_text1, IsLatin))
             total_chars   == korean_chars + english_chars
         IN  IF total_chars = 0 THEN "korean"
             ELSE IF 10 * korean_chars >= 3 * total_chars THEN "korean"
             ELSE IF 10 * english_chars > 7 * total_chars THEN "english"
             ELSE IF korean_chars >= english_chars THEN "korean"
             ELSE "english"

\* a variant without the guard of line 110: the quotient of line 112 is then
\* taken over no letters at all
detect_language_unguarded(text) ==
    IF text = NoneVal \/ text = <<>> THEN "korean"
    ELSE LET clean_text1   == SelectSeq(RemoveLinks(text), IsWordOrSpace)
             korean_chars  == Len(SelectSeq(clean_text1, IsHangul))
             english_chars == Len(SelectSeq(clean_text1, IsLatin))
             total_chars   == korean_chars + english_chars
         IN  IF total_chars = 0 THEN "ZeroDivisionError"
             ELSE IF 10 * korean_chars > 3 * total_chars THEN "korean"
             ELSE IF 10 * english_chars > 7 * total_chars THEN "english"
             ELSE IF korean_chars >= english_chars THEN "korean"
             ELSE "english"

\* lines 101-117.  The quotients are compared as exact fractions: the
\* float quotient k / total exceeds the float 0.3 exactly when 10 k > 3 total
\* (and likewise for 0.7) for every text of a length a tweet can have
detect_language(text) ==
    IF text = NoneVal \/ text = <<>> THEN "korean"
    ELSE LET clean_text1   == SelectSeq(RemoveLinks(text), IsWordOrSpace)
             korean_chars  == Len(SelectSeq(clean_text1, IsHangul))
             english_chars == Len(SelectSeq(clean_text1, IsLatin))
             total_chars   == korean_chars + english_chars
         IN  IF total_chars = 0 THEN "korean"
             \* korean_chars / total_chars > 0.3
             ELSE IF 10 * korean_chars > 3 * total_chars THEN "korean"
             \* english_chars / total_chars > 0.7
             ELSE IF 10 * english_chars > 7 * total_chars THEN "english"
             ELSE IF korean_chars >= english_chars THEN "korean"
             ELSE "english"

(***************************************************************************)
(* clean_text, ensure_keywords_included, generate_ai_response              *)
(***************************************************************************)
IsSupported(c) == c < 128 \/ (44032 <= c /\ c <= 55203)

\* "..."
Placeholder == <<46, 46, 46>>

clean_text(text) ==
    IF text = NoneVal \/ text = <<>> THEN Placeholder
    ELSE LET cleaned == SelectSeq(text, IsSupported)
         IN  IF Strip(cleaned) # <<>> THEN Strip(cleaned) ELSE Placeholder

\* " Also, talking about "
AlsoTalkingAbout ==
    <<32, 65, 108, 115, 111, 44, 32, 116, 97, 108, 107, 105, 110, 103, 32,
      97, 98, 111, 117, 116, 32>>

MissingKeywords(text, keywords) ==
    LET missing(kw) == ~Contains(Lower(text), Lower(kw))
    IN  SelectSeq(keywords, missing)

\* a variant that never appends in the Korean branch
ensure_keywords_included_korean_skipped(text, language, keywords) ==
    LET missing_keywords == MissingKeywords(text, keywords)
    IN  IF keywords = <<>> \/ missing_keywords = <<>> THEN text
        ELSE IF language = "english"
        THEN text \o AlsoTalkingAbout \o Join(<<44, 32>>, missing_keywords) \o <<46>>
        ELSE text

ensure_keywords_included(text, language, keywords) ==
    LET missing_keywords == MissingKeywords(text, keywords)
    IN  IF keywords = <<>> \/ missing_keywords = <<>> THEN text
        ELSE IF language = "english"
        THEN text \o AlsoTalkingAbout \o Join(<<44, 32>>, missing_keywords) \o <<46>>
        ELSE text \o <<32>> \o Join(<<32>>, missing_keywords)

\* response.text.strip().strip('"')
BackendReply(raw) == StripQuotes(Strip(raw))

\* lines 484-489 (and 501-506): what generate_ai_response / generate_quote_text
\* make of the value _generate_with_retry returned
compose_reply(ai_reply, detected_language, keywords) ==
    IF ai_reply = NoneVal \/ ai_reply = <<>> THEN NoneVal
    ELSE ensure_keywords_included(
             IF detected_language = "korean" THEN clean_text(ai_reply) ELSE Strip(ai_reply),
             detected_language, keywords)

(***************************************************************************)
(* State.                                                                  *)
(***************************************************************************)
VARIABLES
    \* TwitterBot fields
    gemini_api_keys,            \* the credential pool, a non-empty sequence
    current_api_key_index,      \* 0-based index of the active credential
    bot_should_stop,            \* the stop flag
    required_keywords,          \* sequence of mandatory keywords
    search_mode,
    current_keyword,
    \* durable storage: the processed-tweets file, NoFile when it is missing
    file,
    \* monitor_feed: position and locals
    pc,
    processed_tweets,
    consecutive_no_new_tweets,
    new_tweets_found,
    tweets_left,                \* items of this cycle's list not yet iterated
    tweet,                      \* the item being iterated
    first_action_name,
    slot,                       \* 1: first action running, 2: second action
    action_name,                \* the action running in the slot
    first_action_success,
    \* _generate_with_retry: position and locals
    gpc,
    initial_key_index,
    gen_i,                      \* completed iterations of the for loop
    gen_ret,                    \* the value returned
    \* generate_ai_response / generate_quote_text: the language detected and
    \* the value returned
    detected_language,
    text_out,
    \* observations (history of the run, read by no action's guard)
    attempt_log,                \* backend attempts of the current call
    last_raw,                   \* text of the last successful backend answer
    exam_in_set,                \* the item's id was in processed_tweets when examined
    action_runs,                \* the actions run on the item being iterated, in order
    handled,                    \* ids of the items this cycle has finished with
    invoked,                    \* actions invoked on the item being iterated
    last_added,                 \* the id added to processed_tweets most recently in this cycle
    cycle_status,
    over_after_items,           \* more than Retention ids when the for loop ended
    first_write_after_over,     \* size of the first set written after that
    saved_count,                \* size of the set last handed to save_processed_tweets in this cycle
    last_io,                    \* how the last load or save of the file ended
    scroll_count,               \* the scroll_count of the last scroll_feed call of this cycle
    action_results,             \* how each action run on the item ended, in order
    exhausted_id,               \* id of the item whose first action met the exhaustion of the pool
    \* the number of consecutive idle cycles a run is followed for
    idle_limit,
    \* the typing fields (lines 65-66), followed in SpecTyping only
    current_typing_speed,       \* in thousandths of a second per character
    typing_rhythm_changes

botVars == <<gemini_api_keys, current_api_key_index, bot_should_stop,
             required_keywords, search_mode, current_keyword>>

genVars == <<gpc, initial_key_index, gen_i, gen_ret, attempt_log, last_raw>>

loopVars == <<pc, processed_tweets, consecutive_no_new_tweets, new_tweets_found,
              tweets_left, tweet, first_action_name, slot, action_name>>

obsVars == <<exam_in_set, invoked, last_added, cycle_status, over_after_items,
             first_write_after_over, saved_count>>

\* the per-item locals and observations
itemVars == <<first_action_success, action_runs, handled>>

traceVars == <<last_io, scroll_count, action_results, exhausted_id>>

typingVars == <<current_typing_speed, typing_rhythm_changes>>

restVars == <<idle_limit, typingVars>>

vars == <<botVars, file, loopVars, genVars, detected_language, text_out, obsVars,
          itemVars, traceVars, restVars>>

\* most credentials in the pool
MaxKeys == 3

NoFile == {-1}

NoId == 0

NoTweet == [id |-> NoId, text |-> NoneVal]

KeyPools == {[i \in 1..n |-> i] : n \in 1..MaxKeys}

(***************************************************************************)
(* configure_gemini, switch_to_next_api_key, _generate_with_retry          *)
(***************************************************************************)
\* configure_gemini: the stop flag after it; configured is FALSE when
\* genai.configure / GenerativeModel raises
configure_gemini(stop, configured) == IF configured THEN stop ELSE TRUE

\* a variant that leaves the stop flag alone when a single key is available
switch_to_next_api_key_single_silent(keys, index, stop, configured) ==
    IF Len(keys) <= 1
    THEN [switched |-> FALSE, index |-> index, stop |-> stop]
    ELSE [switched |-> TRUE,
          index    |-> (index + 1) % Len(keys),
          stop     |-> configure_gemini(stop, configured)]

\* a variant that skips a key at each rotation
switch_to_next_api_key_skips_one(keys, index, stop, configured) ==
    IF Len(keys) <= 1
    THEN [switched |-> FALSE, index |-> index, stop |-> TRUE]
    ELSE [switched |-> TRUE,
          index    |-> (index + 2) % Len(keys),
          stop     |-> configure_gemini(stop, configured)]

\* a variant that rotates backwards
switch_to_next_api_key_backwards(keys, index, stop, configured) ==
    IF Len(keys) <= 1
    THEN [switched |-> FALSE, index |-> index, stop |-> TRUE]
    ELSE [switched |-> TRUE,
          index    |-> (index + Len(keys) - 1) % Len(keys),
          stop     |-> configure_gemini(stop, configured)]

\* a variant that does not wrap around
switch_to_next_api_key_no_wrap(keys, index, stop, configured) ==
    IF Len(keys) <= 1
    THEN [switched |-> FALSE, index |-> index, stop |-> TRUE]
    ELSE [switched |-> TRUE,
          index    |-> index + 1,
          stop     |-> configure_gemini(stop, configured)]

\* a variant that stays at the last key instead of going back to the first
switch_to_next_api_key_saturating(keys, index, stop, configured) ==
    IF Len(keys) <= 1
    THEN [switched |-> FALSE, index |-> index, stop |-> TRUE]
    ELSE [switched |-> TRUE,
          index    |-> IF index + 1 < Len(keys) THEN index + 1 ELSE index,
          stop     |-> configure_gemini(stop, configured)]

\* switch_to_next_api_key: the value returned, the index and the stop flag after it
switch_to_next_api_key(keys, index, stop, configured) ==
    IF Len(keys) <= 1
    THEN [switched |-> FALSE, index |-> index, stop |-> TRUE]
    ELSE [switched |-> TRUE,
          index    |-> (index + 1) % Len(keys),
          stop     |-> configure_gemini(stop, configured)]

\* an attempt, the key it was made with, how it ended, and whether the
\* configure_gemini call of the rotation it caused (if any) went through
LogAttempt(outcome, configured) ==
    attempt_log' = Append(attempt_log,
                          [index |-> current_api_key_index, outcome |-> outcome,
                           configured |-> configured])

\* line 455: entering _generate_with_retry
GenEnter ==
    /\ initial_key_index' = current_api_key_index
    /\ gen_i' = 0
    /\ gen_ret' = NoneVal
    /\ attempt_log' = <<>>
    /\ last_raw' = NoneVal
    /\ gpc' = "loop"

GenFrame == UNCHANGED <<gemini_api_keys, required_keywords, search_mode,
                        current_keyword, file, loopVars, text_out, detected_language,
                        obsVars, itemVars, traceVars, restVars>>

\* lines 456-457 and 472-473: the loop is over, or the stop flag is set at
\* the head of an iteration; no backend attempt is made
GenReturnWithoutAttempt ==
    /\ gpc = "loop"
    /\ gen_i >= Len(gemini_api_keys) \/ bot_should_stop
    /\ bot_should_stop' = IF gen_i >= Len(gemini_api_keys) THEN TRUE ELSE bot_should_stop
    /\ gen_ret' = NoneVal
    /\ gpc' = "done"
    /\ UNCHANGED <<current_api_key_index, initial_key_index, gen_i, attempt_log, last_raw>>
    /\ GenFrame

\* lines 459-460: the backend answers
GenSuccess(texts) ==
    /\ gpc = "loop"
    /\ gen_i < Len(gemini_api_keys) /\ ~bot_should_stop
    /\ \E raw \in texts :
        /\ gen_ret' = BackendReply(raw)
        /\ last_raw' = raw
    /\ LogAttempt("ok", TRUE)
    /\ gpc' = "done"
    /\ UNCHANGED <<current_api_key_index, bot_should_stop, initial_key_index, gen_i>>
    /\ GenFrame

\* a variant that treats every error as critical
GenNonCriticalRotates ==
    /\ gpc = "loop"
    /\ gen_i < Len(gemini_api_keys) /\ ~bot_should_stop
    /\ LogAttempt("noncritical", TRUE)
    /\ LET sw == switch_to_next_api_key(gemini_api_keys, current_api_key_index,
                                        bot_should_stop, TRUE)
       IN  /\ current_api_key_index' = sw.index
           /\ bot_should_stop' = sw.stop
    /\ gen_ret' = NoneVal
    /\ gpc' = "done"
    /\ UNCHANGED <<initial_key_index, gen_i, last_raw>>
    /\ GenFrame

\* lines 461-463 and 469-471: the attempt raises an error that is not critical
GenNonCritical ==
    /\ gpc = "loop"
    /\ gen_i < Len(gemini_api_keys) /\ ~bot_should_stop
    /\ LogAttempt("noncritical", TRUE)
    /\ gen_ret' = NoneVal
    /\ gpc' = "done"
    /\ UNCHANGED <<current_api_key_index, bot_should_stop, initial_key_index, gen_i, last_raw>>
    /\ GenFrame

\* a variant that retries in an endless loop and never detects the wrap-around
GenCriticalRetryForever ==
    /\ gpc = "loop"
    /\ ~bot_should_stop
    /\ \E configured \in BOOLEAN :
        LET sw == switch_to_next_api_key(gemini_api_keys, current_api_key_index,
                                         bot_should_stop, configured)
        IN  /\ LogAttempt("critical", configured \/ ~sw.switched)
            /\ current_api_key_index' = sw.index
            /\ bot_should_stop' = sw.stop
            /\ gpc' = IF sw.switched THEN "loop" ELSE "done"
    /\ gen_ret' = NoneVal
    /\ UNCHANGED <<initial_key_index, gen_i, last_raw>>
    /\ GenFrame

\* a variant with the comparison of line 466 inverted: the flag is set as
\* soon as a rotation moved away from the index of the start
GenCritical_stops_at_first_rotation ==
    /\ gpc = "loop"
    /\ gen_i < Len(gemini_api_keys) /\ ~bot_should_stop
    /\ \E configured \in BOOLEAN :
        LET sw == switch_to_next_api_key(gemini_api_keys, current_api_key_index,
                                         bot_should_stop, configured)
        IN  /\ LogAttempt("critical", configured \/ ~sw.switched)
            /\ current_api_key_index' = sw.index
            /\ IF ~sw.switched
               THEN /\ bot_should_stop' = sw.stop
                    /\ gpc' = "done"
                    /\ gen_i' = gen_i
               ELSE IF sw.index # initial_key_index
               THEN /\ bot_should_stop' = TRUE
                    /\ gpc' = "done"
                    /\ gen_i' = gen_i
               ELSE /\ bot_should_stop' = sw.stop
                    /\ gpc' = "loop"
                    /\ gen_i' = gen_i + 1
    /\ gen_ret' = NoneVal
    /\ UNCHANGED <<initial_key_index, last_raw>>
    /\ GenFrame

\* lines 461-468: the attempt raises a critical error (quota, billing, 429,
\* api key, permission denied)
GenCritical ==
    /\ gpc = "loop"
    /\ gen_i < Len(gemini_api_keys) /\ ~bot_should_stop
    /\ \E configured \in BOOLEAN :
        LET sw == switch_to_next_api_key(gemini_api_keys, current_api_key_index,
                                         bot_should_stop, configured)
        IN  /\ LogAttempt("critical", configured \/ ~sw.switched)
            /\ current_api_key_index' = sw.index
            /\ IF ~sw.switched
               THEN /\ bot_should_stop' = sw.stop
                    /\ gpc' = "done"
                    /\ gen_i' = gen_i
               ELSE IF sw.index = initial_key_index
               THEN /\ bot_should_stop' = TRUE
                    /\ gpc' = "done"
                    /\ gen_i' = gen_i
               ELSE /\ bot_should_stop' = sw.stop
                    /\ gpc' = "loop"
                    /\ gen_i' = gen_i + 1
    /\ gen_ret' = NoneVal
    /\ UNCHANGED <<initial_key_index, last_raw>>
    /\ GenFrame

\* one step of _generate_with_retry
GenStep(texts) ==
    \/ GenReturnWithoutAttempt
    \/ GenSuccess(texts)
    \/ GenNonCritical
    \/ GenCritical

(***************************************************************************)
(* Initial values shared by the specifications.                            *)
(***************************************************************************)
\* __init__ (lines 36-55): the flag is FALSE unless configure_gemini fails
InitBot ==
    /\ gemini_api_keys \in KeyPools
    /\ current_api_key_index = 0
    /\ bot_should_stop \in BOOLEAN

InitGenIdle ==
    /\ gpc = "idle"
    /\ initial_key_index = 0
    /\ gen_i = 0
    /\ gen_ret = NoneVal
    /\ attempt_log = <<>>
    /\ last_raw = NoneVal

InitLoopIdle ==
    /\ processed_tweets = {}
    /\ consecutive_no_new_tweets = 0
    /\ new_tweets_found = FALSE
    /\ tweets_left = 0
    /\ first_action_name = "none"
    /\ slot = 0
    /\ action_name = "none"
    /\ first_action_success = FALSE
    /\ detected_language = "none"

InitObs ==
    /\ exam_in_set = FALSE
    /\ invoked = {}
    /\ last_added = NoId
    /\ cycle_status = "none"
    /\ over_after_items = FALSE
    /\ first_write_after_over = 0
    /\ saved_count = 0
    /\ action_runs = <<>>
    /\ handled = {}
    /\ last_io = "none"
    /\ scroll_count = 0
    /\ action_results = <<>>
    /\ exhausted_id = NoId

\* the band of current_typing_speed (lines 65, 172, 207), in thousandths of
\* a second per character
MinTypingSpeed == 30

MaxTypingSpeed == 40

\* lines 65-66 with the speed drawn at the low end of the band; no idle
\* cycle is followed
InitRestIdle ==
    /\ idle_limit = 0
    /\ current_typing_speed = MinTypingSpeed
    /\ typing_rhythm_changes = 2

(***************************************************************************)
(* SpecGen: calls of _generate_with_retry, one after the other, on a pool  *)
(* of any size, each backend attempt answering or failing in any way.      *)
(***************************************************************************)
InitGen ==
    /\ InitBot
    /\ required_keywords = <<>>
    /\ search_mode = FALSE
    /\ current_keyword = NoneVal
    /\ file = NoFile
    /\ pc = "generate"
    /\ tweet = NoTweet
    /\ text_out = NoneVal
    /\ InitLoopIdle
    /\ InitGenIdle
    /\ InitObs
    /\ InitRestIdle

\* a caller invokes _generate_with_retry
GenCall ==
    /\ pc = "generate"
    /\ gpc \in {"idle", "done"}
    /\ GenEnter
    /\ UNCHANGED <<botVars, file, loopVars, text_out, detected_language, obsVars,
                   itemVars>>
    /\ UNCHANGED <<traceVars, restVars>>

NextGen == GenCall \/ GenStep(BackendTexts)

SpecGen == InitGen /\ [][NextGen]_vars

\* the backend call blocks and then answers or raises: a started call keeps
\* taking steps
SpecGenFair == SpecGen /\ WF_vars(GenStep(BackendTexts))

Attempts == Len(attempt_log)

Outcomes == [j \in 1..Len(attempt_log) |-> attempt_log[j].outcome]

\* C2: one call of _generate_with_retry makes at most len(gemini_api_keys)
\* backend attempts, and a call that has started returns.
C2_AttemptsBoundedAndReturns ==
    /\ [](Attempts <= Len(gemini_api_keys))
    /\ [](gpc = "loop" => <>(gpc = "done"))

C2_Witness ==
    /\ gpc = "done"
    /\ Len(gemini_api_keys) >= 2
    /\ Attempts = Len(gemini_api_keys)

\* C3: when every credential of the pool has failed critically in one call
\* (a pool of one included), the call returns None with the stop flag set.
C3_ExhaustionStops ==
    ( /\ gpc = "done"
      /\ Attempts = Len(gemini_api_keys)
      /\ \A j \in 1..Attempts : Outcomes[j] = "critical" )
    => (gen_ret = NoneVal /\ bot_should_stop)

C3_Witness ==
    /\ gpc = "done"
    /\ Len(gemini_api_keys) = 1
    /\ Outcomes = <<"critical">>
    /\ bot_should_stop

\* C4: when the first k-1 attempts of a call fail critically and the k-th
\* answers, the call returns that answer's text, the stop flag is false and
\* the active index is (start + k - 1) mod len.
C4_FailoverResult ==
    ( /\ gpc = "done"
      /\ Attempts >= 1
      /\ Outcomes[Attempts] = "ok"
      /\ \A j \in 1..(Attempts - 1) : Outcomes[j] = "critical" )
    => /\ gen_ret = BackendReply(last_raw)
       /\ ~bot_should_stop
       /\ current_api_key_index =
              (initial_key_index + Attempts - 1) % Len(gemini_api_keys)

C4_Witness ==
    /\ gpc = "done"
    /\ Len(gemini_api_keys) = 2
    /\ initial_key_index = 0
    /\ Outcomes = <<"critical", "ok">>
    /\ current_api_key_index = 1
    /\ gen_ret # <<>>

\* C5: a non-critical failure ends the call at once: no attempt follows it,
\* None is returned, and the active index and the stop flag are what they
\* were just before the attempt.
C5_NonCriticalReturnsAtOnce ==
    /\ \A j \in 1..(Attempts - 1) : Outcomes[j] # "noncritical"
    /\ (Attempts >= 1 /\ Outcomes[Attempts] = "noncritical")
       => /\ gpc = "done"
          /\ gen_ret = NoneVal
          /\ current_api_key_index = attempt_log[Attempts].index
          /\ ~bot_should_stop

C5_Witness ==
    /\ gpc = "done"
    /\ Attempts = 2
    /\ Outcomes = <<"critical", "noncritical">>
    /\ current_api_key_index = attempt_log[2].index

\* every credential of the pool was attempted in the call and failed critically
Exhausted ==
    /\ Attempts = Len(gemini_api_keys)
    /\ \A j \in 1..Attempts : Outcomes[j] = "critical"

\* a rotation of the call could not configure the key it moved to (lines 81-83)
ConfigureFailed == \E j \in 1..Attempts : ~attempt_log[j].configured

\* C17 as stated: a call that made an attempt has the stop flag set only
\* when the pool is exhausted; a critical error of any other attempt is
\* followed by the rotation to the next key, the call going on.
C17_StopOnlyWhenExhausted ==
    /\ (Attempts >= 1 /\ bot_should_stop) => Exhausted
    /\ (Attempts >= 1 /\ Outcomes[Attempts] = "critical" /\ ~Exhausted)
       => /\ gpc = "loop"
          /\ ~bot_should_stop
          /\ current_api_key_index =
                 (attempt_log[Attempts].index + 1) % Len(gemini_api_keys)

\* C17 as amended: a call that made an attempt has the stop flag set only
\* when the pool is exhausted or when configure_gemini failed for the key a
\* rotation moved to; a critical error of any other attempt is followed by
\* the rotation to the next key, the call going on.
C17_StopOnlyWhenExhaustedOrUnconfigured ==
    /\ (Attempts >= 1 /\ bot_should_stop) => (Exhausted \/ ConfigureFailed)
    /\ (Attempts >= 1 /\ Outcomes[Attempts] = "critical"
          /\ ~Exhausted /\ ~ConfigureFailed)
       => /\ gpc = "loop"
          /\ ~bot_should_stop
          /\ current_api_key_index =
                 (attempt_log[Attempts].index + 1) % Len(gemini_api_keys)

\* the first of three keys failed critically and the second one could not
\* be configured
C17_Witness ==
    /\ Len(gemini_api_keys) = 3
    /\ Attempts = 1
    /\ Outcomes = <<"critical">>
    /\ ConfigureFailed
    /\ bot_should_stop
    /\ current_api_key_index = (initial_key_index + 1) % 3

\* the active index after the rotation that the j-th attempt of the call caused
IndexAfterAttempt(j) ==
    IF j < Attempts THEN attempt_log[j + 1].index ELSE current_api_key_index

\* C18: each rotation moves the active index from i to (i + 1) mod len, and
\* len rotations in a row, from any start index, bring it back to the start.
C18_RotationCyclic ==
    /\ \A j \in 1..Attempts :
           Outcomes[j] = "critical"
           => IndexAfterAttempt(j) = (attempt_log[j].index + 1) % Len(gemini_api_keys)
    /\ Exhausted => current_api_key_index = initial_key_index

\* three rotations from index 1, through the wrap-around, back to index 1
C18_Witness ==
    /\ Len(gemini_api_keys) = 3
    /\ initial_key_index = 1
    /\ Exhausted
    /\ [j \in 1..Attempts |-> attempt_log[j].index] = <<1, 2, 0>>
    /\ current_api_key_index = 1

\* the indices of the keys the call attempted, in order
AttemptedIndices == [j \in 1..Attempts |-> attempt_log[j].index]

\* C30: within one call the keys are attempted in cyclic order from the
\* index active when the call began, each key at most once; a call that ends
\* in exhaustion on a pool of two or more keys returns with the active index
\* equal to the index at its start.
C30_CyclicOrderEachKeyOnce ==
    /\ \A j \in 1..Attempts :
           AttemptedIndices[j] = (initial_key_index + j - 1) % Len(gemini_api_keys)
    /\ \A j, k \in 1..Attempts :
           j # k => AttemptedIndices[j] # AttemptedIndices[k]
    /\ (gpc = "done" /\ Exhausted /\ Len(gemini_api_keys) >= 2)
       => current_api_key_index = initial_key_index

\* a call that began at the last of three keys went through the first and
\* the second one and ended in exhaustion, back at the last key
C30_Witness ==
    /\ gpc = "done"
    /\ Len(gemini_api_keys) = 3
    /\ initial_key_index = 2
    /\ Exhausted
    /\ AttemptedIndices = <<2, 0, 1>>
    /\ current_api_key_index = 2
    /\ bot_should_stop

\* C19: the active index is always within the pool, and the pool never
\* changes.
C19_IndexValidPoolFixed ==
    /\ [](current_api_key_index \in 0..(Len(gemini_api_keys) - 1))
    /\ [][gemini_api_keys' = gemini_api_keys]_vars

\* the rotation from the last key wrapped to the first one
C19_Witness ==
    /\ Len(gemini_api_keys) = 3
    /\ Attempts >= 1
    /\ attempt_log[Attempts].index = 2
    /\ Outcomes[Attempts] = "critical"
    /\ current_api_key_index = 0
    /\ gpc = "loop"

(***************************************************************************)
(* SpecDetect: detect_language applied to any source text.                 *)
(***************************************************************************)
\* longest text given to detect_language
MaxDetectLen == 10

\* '#'  'a'  U+AC00
DetectAlphabet == {35, 97, 44032}

DetectTexts == UNION {[1..n -> DetectAlphabet] : n \in 0..MaxDetectLen}

InitDetect ==
    /\ gemini_api_keys = <<1>>
    /\ current_api_key_index = 0
    /\ bot_should_stop = FALSE
    /\ required_keywords = <<>>
    /\ search_mode = FALSE
    /\ current_keyword = NoneVal
    /\ file = NoFile
    /\ pc = "detect"
    /\ tweet \in {[id |-> 1, text |-> t] : t \in DetectTexts \cup {NoneVal}}
    /\ text_out = NoneVal
    /\ InitLoopIdle
    /\ InitGenIdle
    /\ InitObs
    /\ InitRestIdle

\* line 477 (and 493): the language of the source text is detected
Detect ==
    /\ pc = "detect"
    /\ detected_language' = detect_language(tweet.text)
    /\ pc' = "detected"
    /\ UNCHANGED <<botVars, file, processed_tweets, consecutive_no_new_tweets,
                   new_tweets_found, tweets_left, tweet, first_action_name, slot,
                   action_name, genVars, text_out, obsVars, itemVars>>
    /\ UNCHANGED <<traceVars, restVars>>

NextDetect == Detect

SpecDetect == InitDetect /\ [][NextDetect]_vars

\* lines 105-106: the text without links, mentions, hashtags and punctuation
StrippedText(text) == SelectSeq(RemoveLinks(text), IsWordOrSpace)

\* line 107
KoreanCount(text) ==
    LET t == StrippedText(text) IN Cardinality({i \in 1..Len(t) : IsHangul(t[i])})

\* line 108
EnglishCount(text) ==
    LET t == StrippedText(text) IN Cardinality({i \in 1..Len(t) : IsLatin(t[i])})

\* the ordered rule on the two counts
DecisionRule(k, e) ==
    IF k + e = 0 THEN "korean"
    ELSE IF 10 * k > 3 * (k + e) THEN "korean"
    ELSE IF 10 * e > 7 * (k + e) THEN "english"
    ELSE IF k > e THEN "korean"
    ELSE IF e > k THEN "english"
    ELSE "korean"

\* C20: with k Hangul and e Latin letters left after stripping, the language
\* detected is that of the ordered rule: Korean when k + e = 0; else Korean
\* when k / (k + e) > 0.3; else English when e / (k + e) > 0.7; else the
\* language of the larger count, Korean on a tie.
C20_DecisionRule ==
    pc = "detected"
    => detected_language = DecisionRule(KoreanCount(tweet.text), EnglishCount(tweet.text))

\* neither ratio passes its threshold: 3 Hangul and 7 Latin letters
C20_Witness ==
    /\ pc = "detected"
    /\ KoreanCount(tweet.text) = 3
    /\ EnglishCount(tweet.text) = 7
    /\ detected_language = "english"

\* line 103: the language returned for a text that is empty or absent
DefaultLanguage == "korean"

\* C21: detect_language is total: for every text, the empty text, an absent
\* text and a text without a letter of either script included, it returns one
\* of the two values 'korean' and 'english', and for an empty or absent text
\* it returns the default language.
C21_DetectTotal ==
    pc = "detected"
    => /\ detected_language \in {"korean", "english"}
       /\ tweet.text \in {<<>>, NoneVal} => detected_language = DefaultLanguage

\* a text that is not empty and holds no letter of either script: '#' alone
C21_Witness ==
    /\ pc = "detected"
    /\ tweet.text = <<35>>
    /\ KoreanCount(tweet.text) + EnglishCount(tweet.text) = 0
    /\ detected_language = "korean"

(***************************************************************************)
(* SpecCompose: generate_ai_response / generate_quote_text applied to any  *)
(* source text, any keyword list and any backend text.                     *)
(***************************************************************************)
InitCompose ==
    /\ gemini_api_keys = <<1>>
    /\ current_api_key_index = 0
    /\ bot_should_stop = FALSE
    /\ required_keywords \in KeywordLists
    /\ search_mode = FALSE
    /\ current_keyword = NoneVal
    /\ file = NoFile
    /\ pc = "compose"
    /\ tweet \in {[id |-> 1, text |-> t] : t \in TweetTexts}
    /\ text_out = NoneVal
    /\ InitLoopIdle
    /\ InitGenIdle
    /\ InitObs
    /\ InitRestIdle

\* lines 477-489 with the backend answering raw at the first attempt
Compose ==
    /\ pc = "compose"
    /\ \E raw \in BackendTexts :
        /\ last_raw' = raw
        /\ gen_ret' = BackendReply(raw)
        /\ text_out' = compose_reply(BackendReply(raw), detect_language(tweet.text),
                                     required_keywords)
    /\ detected_language' = detect_language(tweet.text)
    /\ pc' = "composed"
    /\ UNCHANGED <<botVars, file, processed_tweets, consecutive_no_new_tweets,
                   new_tweets_found, tweets_left, tweet, first_action_name, slot,
                   action_name, gpc, initial_key_index, gen_i, attempt_log, obsVars,
                   itemVars>>
    /\ UNCHANGED <<traceVars, restVars>>

NextCompose == Compose

SpecCompose == InitCompose /\ [][NextCompose]_vars

ContainsKeyword(text, kw) == Contains(Lower(text), Lower(kw))

\* C6: every non-null composed response contains every mandatory keyword as
\* a case-insensitive substring.
C6_KeywordsIncluded ==
    (pc = "composed" /\ text_out # NoneVal)
    => \A j \in 1..Len(required_keywords) :
           ContainsKeyword(text_out, required_keywords[j])

\* the backend's text held none of the keywords
C6_Witness ==
    /\ pc = "composed"
    /\ text_out # NoneVal
    /\ Len(required_keywords) = 2
    /\ required_keywords[1] # required_keywords[2]
    /\ \A j \in 1..Len(required_keywords) :
           ~ContainsKeyword(gen_ret, required_keywords[j])

\* C7: every non-null response composed for Korean consists of supported
\* characters only (code point below 128 or a Hangul syllable).
C7_KoreanResponseSanitized ==
    (pc = "composed" /\ text_out # NoneVal /\ detect_language(tweet.text) = "korean")
    => \A i \in 1..Len(text_out) : IsSupported(text_out[i])

(***************************************************************************)
(* Spec: one run of monitor_feed.                                          *)
(***************************************************************************)
\* the retention bound of processed_tweets: the model's scaled-down image of
\* the 300 of lines 699-700
Retention == 1
\* most items get_all_visible_tweets returns in one cycle
MaxTweets == 2
\* cap of consecutive_no_new_tweets
MaxIdle == 1

Ids == 1..(Retention + 2)

\* what get_tweet_id returns for an item of the feed: the id may be absent
ItemIds == Ids \cup {NoId}

\* what get_tweet_text returns for an item: absent, "a" or U+AC00
ItemTexts == {NoneVal, <<97>>, <<44032>>}

\* the pools of a run of the loop
LoopKeyPools == {<<1>>, <<1, 2>>}

\* the backend's answers in a run of the loop: " " and "a"
LoopBackendTexts == {<<32>>, <<97>>}

\* line 325
contains_keyword(tweet_text, keyword) ==
    IF tweet_text \notin {NoneVal, <<>>} /\ keyword \notin {NoneVal, <<>>}
    THEN Contains(Lower(tweet_text), Lower(keyword))
    ELSE FALSE

\* a variant that lets ids through that are already in the set
IsNewTweet_no_dedup(tweet_id, processed) == tweet_id # NoId

\* line 638, negated: the item is processed in this cycle
IsNewTweet(tweet_id, processed) == tweet_id # NoId /\ tweet_id \notin processed

\* line 699
NeedsTruncation(processed) == Cardinality(processed) > Retention

\* a variant that keeps one id too many
TruncationResults_one_more(processed) ==
    {kept \in SUBSET processed : Cardinality(kept) = Retention + 1}

\* line 700: set(list(processed_tweets)[-300:]).  A set iterates in hash
\* order, which is unrelated to the order of insertion: any Retention ids of
\* the set may be the last ones of the list
TruncationResults(processed) ==
    {kept \in SUBSET processed : Cardinality(kept) = Retention}

\* save_processed_tweets (lines 266-272): the write may fail, which is logged
\* and leaves the file as it was
Save(processed, written) ==
    /\ file' = IF written THEN processed ELSE file
    /\ saved_count' = Cardinality(processed)
    /\ first_write_after_over' =
          IF written /\ over_after_items /\ first_write_after_over = 0
          THEN Cardinality(processed)
          ELSE first_write_after_over
    /\ last_io' = IF written THEN "written" ELSE "save_failed"

\* load_processed_tweets (lines 274-283)
load_processed_tweets(readable) ==
    IF file = NoFile \/ ~readable THEN {} ELSE file

Init ==
    /\ gemini_api_keys \in LoopKeyPools
    /\ current_api_key_index = 0
    /\ bot_should_stop \in BOOLEAN
    /\ required_keywords = <<(<<65>>)>>
    /\ \/ search_mode = FALSE /\ current_keyword = NoneVal
       \/ search_mode = TRUE /\ current_keyword = <<65>>
    /\ file \in {NoFile} \cup {1..k : k \in 0..(Retention + 2)}
    /\ pc = "start"
    /\ tweet = NoTweet
    /\ text_out = NoneVal
    /\ InitLoopIdle
    /\ InitGenIdle
    /\ InitObs
    /\ idle_limit = MaxIdle
    /\ current_typing_speed = MinTypingSpeed
    /\ typing_rhythm_changes = 2

\* a variant of monitor_feed that clears the stop flag when it begins
MonitorStart_clears_flag ==
    /\ pc = "start"
    /\ \E readable \in BOOLEAN :
        /\ processed_tweets' = load_processed_tweets(readable)
        /\ last_io' = IF file = NoFile THEN "load_missing"
                      ELSE IF ~readable THEN "load_unreadable"
                      ELSE "loaded"
    /\ consecutive_no_new_tweets' = 0
    /\ bot_should_stop' = FALSE
    /\ pc' = "while"
    /\ UNCHANGED <<gemini_api_keys, current_api_key_index, required_keywords,
                   search_mode, current_keyword, file, new_tweets_found, tweets_left, tweet,
                   first_action_name, slot, action_name, genVars, text_out, detected_language, obsVars>>
    /\ UNCHANGED itemVars
    /\ UNCHANGED <<scroll_count, action_results, exhausted_id, restVars>>

\* lines 616-627
MonitorStart ==
    /\ pc = "start"
    /\ \E readable \in BOOLEAN :
        /\ processed_tweets' = load_processed_tweets(readable)
        /\ last_io' = IF file = NoFile THEN "load_missing"
                      ELSE IF ~readable THEN "load_unreadable"
                      ELSE "loaded"
    /\ consecutive_no_new_tweets' = 0
    /\ pc' = "while"
    /\ UNCHANGED <<botVars, file, new_tweets_found, tweets_left, tweet,
                   first_action_name, slot, action_name, genVars, text_out, detected_language, obsVars>>
    /\ UNCHANGED itemVars
    /\ UNCHANGED <<scroll_count, action_results, exhausted_id, restVars>>

\* line 629: the stop flag ends the loop
LoopExit ==
    /\ pc = "while"
    /\ bot_should_stop
    /\ pc' = "final"
    /\ UNCHANGED <<botVars, file, processed_tweets, consecutive_no_new_tweets,
                   new_tweets_found, tweets_left, tweet, first_action_name, slot,
                   action_name, genVars, text_out, detected_language, obsVars>>
    /\ UNCHANGED itemVars
    /\ UNCHANGED <<traceVars, restVars>>

\* lines 629-632: a cycle begins with the list of visible tweets; the
\* observations of the cycle before are dropped
Collect ==
    /\ pc = "while"
    /\ ~bot_should_stop
    /\ tweets_left' \in 0..MaxTweets
    /\ new_tweets_found' = FALSE
    /\ tweet' = NoTweet
    /\ pc' = "for"
    /\ cycle_status' = "running"
    /\ exam_in_set' = FALSE
    /\ invoked' = {}
    /\ last_added' = NoId
    /\ over_after_items' = FALSE
    /\ first_write_after_over' = 0
    /\ saved_count' = 0
    /\ UNCHANGED <<botVars, file, processed_tweets, consecutive_no_new_tweets,
                   first_action_name, slot, action_name, genVars, text_out,
                   detected_language>>
    /\ first_action_success' = FALSE
    /\ action_runs' = <<>>
    /\ handled' = {}
    /\ last_io' = "none"
    /\ scroll_count' = 0
    /\ action_results' = <<>>
    /\ UNCHANGED <<exhausted_id, restVars>>

\* lines 634-635: the list is exhausted, or the stop flag breaks the for
\* loop; the observations of the loop's items are dropped
ForEnd ==
    /\ pc = "for"
    /\ tweets_left = 0 \/ bot_should_stop
    /\ pc' = "after_for"
    /\ over_after_items' = NeedsTruncation(processed_tweets)
    /\ UNCHANGED <<botVars, file, processed_tweets, consecutive_no_new_tweets,
                   new_tweets_found, tweets_left, tweet, first_action_name, slot,
                   action_name, genVars, text_out, detected_language, exam_in_set, invoked, last_added,
                   cycle_status, first_write_after_over, saved_count>>
    /\ first_action_success' = FALSE
    /\ action_runs' = <<>>
    /\ handled' = {}
    /\ action_results' = <<>>
    /\ UNCHANGED <<last_io, scroll_count, exhausted_id, restVars>>

\* lines 637-639: an item without id, or with an id already processed, is skipped
SkipTweet ==
    /\ pc = "for"
    /\ tweets_left > 0 /\ ~bot_should_stop
    /\ \E tweet_id \in ItemIds :
        /\ ~IsNewTweet(tweet_id, processed_tweets)
        /\ tweet' = [id |-> tweet_id, text |-> NoneVal]
        /\ exam_in_set' = (tweet_id \in processed_tweets)
    /\ tweets_left' = tweets_left - 1
    /\ invoked' = {}
    /\ UNCHANGED <<botVars, file, pc, processed_tweets, consecutive_no_new_tweets,
                   new_tweets_found, first_action_name, slot, action_name, genVars,
                   text_out, detected_language, last_added, cycle_status, over_after_items,
                   first_write_after_over, saved_count>>
    /\ first_action_success' = FALSE
    /\ action_runs' = <<>>
    /\ UNCHANGED handled
    /\ action_results' = <<>>
    /\ UNCHANGED <<last_io, scroll_count, exhausted_id, restVars>>

\* a variant of the for loop without the test of line 635
BeginTweet_flag_unchecked ==
    /\ pc = "for"
    /\ tweets_left > 0
    /\ \E tweet_id \in ItemIds :
        /\ IsNewTweet(tweet_id, processed_tweets)
        /\ tweet' = [id |-> tweet_id, text |-> NoneVal]
        /\ exam_in_set' = (tweet_id \in processed_tweets)
    /\ tweets_left' = tweets_left - 1
    /\ invoked' = {}
    /\ new_tweets_found' = TRUE
    /\ first_action_name' \in {"reply", "quote"}
    /\ action_name' = first_action_name'
    /\ slot' = 1
    /\ pc' = "action"
    /\ UNCHANGED <<botVars, file, processed_tweets, consecutive_no_new_tweets,
                   genVars, text_out, detected_language, last_added, cycle_status, over_after_items,
                   first_write_after_over, saved_count>>
    /\ first_action_success' = FALSE
    /\ action_runs' = <<>>
    /\ UNCHANGED handled
    /\ action_results' = <<>>
    /\ UNCHANGED <<last_io, scroll_count, exhausted_id, restVars>>

\* lines 637-649: a new item; the order of the two actions is drawn
BeginTweet ==
    /\ pc = "for"
    /\ tweets_left > 0 /\ ~bot_should_stop
    /\ \E tweet_id \in ItemIds :
        /\ IsNewTweet(tweet_id, processed_tweets)
        /\ tweet' = [id |-> tweet_id, text |-> NoneVal]
        /\ exam_in_set' = (tweet_id \in processed_tweets)
    /\ tweets_left' = tweets_left - 1
    /\ invoked' = {}
    /\ new_tweets_found' = TRUE
    /\ first_action_name' \in {"reply", "quote"}
    /\ action_name' = first_action_name'
    /\ slot' = 1
    /\ pc' = "action"
    /\ UNCHANGED <<botVars, file, processed_tweets, consecutive_no_new_tweets,
                   genVars, text_out, detected_language, last_added, cycle_status, over_after_items,
                   first_write_after_over, saved_count>>
    /\ first_action_success' = FALSE
    /\ action_runs' = <<>>
    /\ UNCHANGED handled
    /\ action_results' = <<>>
    /\ UNCHANGED <<last_io, scroll_count, exhausted_id, restVars>>

OtherAction(name) == IF name = "reply" THEN "quote" ELSE "reply"

\* a variant that runs the second action whatever the first one did
Conclude_second_not_gated(success) ==
    /\ tweet' = [tweet EXCEPT !.text = NoneVal]
    /\ IF slot = 1
       THEN /\ first_action_success' = success
            /\ slot' = 2
            /\ action_name' = OtherAction(first_action_name)
            /\ pc' = "action"
            /\ UNCHANGED <<processed_tweets, last_added, handled>>
       ELSE /\ processed_tweets' = processed_tweets \cup {tweet.id}
            /\ last_added' = tweet.id
            /\ handled' = handled \cup {tweet.id}
            /\ UNCHANGED first_action_success
            /\ slot' = 0
            /\ action_name' = "none"
            /\ pc' = "for"

\* a variant that records the item only when the second action succeeded
Conclude_second_gates_record(success) ==
    /\ tweet' = [tweet EXCEPT !.text = NoneVal]
    /\ IF slot = 1 /\ success
       THEN /\ first_action_success' = TRUE
            /\ slot' = 2
            /\ action_name' = OtherAction(first_action_name)
            /\ pc' = "action"
            /\ UNCHANGED <<processed_tweets, last_added, handled>>
       ELSE /\ processed_tweets' =
                   IF slot = 2 /\ ~success THEN processed_tweets
                   ELSE processed_tweets \cup {tweet.id}
            /\ last_added' = IF slot = 2 /\ ~success THEN last_added ELSE tweet.id
            /\ handled' = handled \cup {tweet.id}
            /\ UNCHANGED first_action_success
            /\ slot' = 0
            /\ action_name' = "none"
            /\ pc' = "for"

\* a variant without line 687: an item whose first action failed is not recorded
Conclude_failure_unrecorded(success) ==
    /\ tweet' = [tweet EXCEPT !.text = NoneVal]
    /\ IF slot = 1 /\ success
       THEN /\ first_action_success' = TRUE
            /\ slot' = 2
            /\ action_name' = OtherAction(first_action_name)
            /\ pc' = "action"
            /\ UNCHANGED <<processed_tweets, last_added, handled>>
       ELSE /\ processed_tweets' =
                   IF slot = 1 THEN processed_tweets
                   ELSE processed_tweets \cup {tweet.id}
            /\ last_added' = IF slot = 1 THEN last_added ELSE tweet.id
            /\ handled' = handled \cup {tweet.id}
            /\ UNCHANGED first_action_success
            /\ slot' = 0
            /\ action_name' = "none"
            /\ pc' = "for"

\* lines 663-687: what follows an action that ended with the given success.
\* A first action that succeeded leads to the second one; otherwise the id
\* is added to processed_tweets and the for loop goes on
Conclude(success) ==
    /\ tweet' = [tweet EXCEPT !.text = NoneVal]
    /\ IF slot = 1 /\ success
       THEN /\ first_action_success' = TRUE
            /\ slot' = 2
            /\ action_name' = OtherAction(first_action_name)
            /\ pc' = "action"
            /\ UNCHANGED <<processed_tweets, last_added, handled>>
       ELSE /\ processed_tweets' = processed_tweets \cup {tweet.id}
            /\ last_added' = tweet.id
            /\ handled' = handled \cup {tweet.id}
            /\ UNCHANGED first_action_success
            /\ slot' = 0
            /\ action_name' = "none"
            /\ pc' = "for"

\* a variant of reply_to_tweet that goes on without a text
PrepFails_text_unchecked(reached, tweet_text) ==
    IF action_name = "reply"
    THEN \/ ~reached
         \/ /\ search_mode
            /\ current_keyword \notin {NoneVal, <<>>}
            /\ tweet_text \notin {NoneVal, <<>>}
            /\ ~contains_keyword(tweet_text, current_keyword)
    ELSE tweet_text \in {NoneVal, <<>>}

\* reply_to_tweet lines 560-567, or lines 658-659 for a quote: the action
\* ends before it asks for a text.  reached is FALSE when the surface raises
\* in lines 560-564 or the id is no longer found
PrepFails(reached, tweet_text) ==
    IF action_name = "reply"
    THEN \/ ~reached
         \/ tweet_text \in {NoneVal, <<>>}
         \/ /\ search_mode
            /\ current_keyword \notin {NoneVal, <<>>}
            /\ ~contains_keyword(tweet_text, current_keyword)
    ELSE tweet_text \in {NoneVal, <<>>}

\* quote_tweet is not called when the text is absent (lines 659, 675)
Invokes(tweet_text) ==
    IF action_name = "quote" /\ tweet_text \in {NoneVal, <<>>}
    THEN {}
    ELSE {action_name}

\* what the action of the slot saw of the item's text: nothing when it ended
\* before line 565, else whether get_tweet_text returned a text
TextSeen(reached, tweet_text) ==
    IF ~reached THEN "unread"
    ELSE IF tweet_text \in {NoneVal, <<>>} THEN "absent"
    ELSE "present"

\* how an action ended: touched when it reached the surface to type and
\* submit its text (from line 572 or 533 on), posted when the surface
\* confirmed the post (lines 586, 548), engaged when like_tweet or
\* retweet_tweet was called after it (lines 587-588)
Result(touched, posted, engaged) ==
    [touched |-> touched, posted |-> posted, engaged |-> engaged]

\* the action of the slot is called and ends without a generation call
ActionEndsInPrep ==
    /\ pc = "action"
    /\ \E reached \in BOOLEAN, tweet_text \in ItemTexts :
        /\ action_name = "quote" => reached
        /\ PrepFails(reached, tweet_text)
        /\ invoked' = invoked \cup Invokes(tweet_text)
        /\ action_runs' = Append(action_runs,
               [action |-> action_name, text |-> TextSeen(reached, tweet_text)])
    /\ action_results' = Append(action_results, Result(FALSE, FALSE, FALSE))
    /\ Conclude(FALSE)
    /\ UNCHANGED <<botVars, file, consecutive_no_new_tweets, new_tweets_found,
                   tweets_left, first_action_name, genVars, text_out, detected_language,
                   exam_in_set, cycle_status, over_after_items,
                   first_write_after_over, saved_count>>
    /\ UNCHANGED <<last_io, scroll_count, exhausted_id, restVars>>

\* the action of the slot is called and reaches generate_ai_response (line
\* 569) or generate_quote_text (line 527), which calls _generate_with_retry
ActionCallsGenerate ==
    /\ pc = "action"
    /\ \E tweet_text \in ItemTexts :
        /\ ~PrepFails(TRUE, tweet_text)
        /\ tweet' = [tweet EXCEPT !.text = tweet_text]
        /\ invoked' = invoked \cup Invokes(tweet_text)
        /\ action_runs' = Append(action_runs,
               [action |-> action_name, text |-> TextSeen(TRUE, tweet_text)])
    /\ GenEnter
    /\ pc' = "gen_wait"
    /\ UNCHANGED <<botVars, file, processed_tweets, consecutive_no_new_tweets,
                   new_tweets_found, tweets_left, first_action_name, slot,
                   action_name, text_out, detected_language, exam_in_set, last_added, cycle_status,
                   over_after_items, first_write_after_over, saved_count>>
    /\ UNCHANGED <<first_action_success, handled>>
    /\ UNCHANGED <<traceVars, restVars>>

\* a variant of reply_to_tweet that likes and retweets before it knows
\* whether the reply was posted
ActionAfterGenerate_engages_unposted ==
    /\ pc = "gen_wait"
    /\ gpc = "done"
    /\ LET text == compose_reply(gen_ret, detect_language(tweet.text), required_keywords)
       IN  /\ text_out' = NoneVal
           /\ IF text \in {NoneVal, <<>>} \/ bot_should_stop
              THEN /\ action_results' = Append(action_results, Result(FALSE, FALSE, FALSE))
                   /\ Conclude(FALSE)
              ELSE \E posted, like, retweet \in BOOLEAN :
                      /\ (like \/ retweet) => action_name = "reply"
                      /\ action_results' =
                            Append(action_results, Result(TRUE, posted, like \/ retweet))
                      /\ Conclude(posted)
    /\ exhausted_id' = IF slot = 1 /\ bot_should_stop /\ Exhausted
                       THEN tweet.id
                       ELSE exhausted_id
    /\ gpc' = "idle"
    /\ gen_ret' = NoneVal
    /\ attempt_log' = <<>>
    /\ last_raw' = NoneVal
    /\ UNCHANGED <<botVars, file, consecutive_no_new_tweets, new_tweets_found,
                   tweets_left, first_action_name, initial_key_index, gen_i,
                   exam_in_set, invoked, cycle_status, over_after_items,
                   first_write_after_over, saved_count>>
    /\ UNCHANGED <<action_runs, detected_language, last_io, scroll_count, restVars>>

\* a variant without the tests of lines 528 and 570: the action goes on to
\* the surface whatever was composed
ActionAfterGenerate_untested ==
    /\ pc = "gen_wait"
    /\ gpc = "done"
    /\ LET text == compose_reply(gen_ret, detect_language(tweet.text), required_keywords)
       IN  /\ text_out' = NoneVal
           /\ IF FALSE
              THEN /\ action_results' = Append(action_results, Result(FALSE, FALSE, FALSE))
                   /\ Conclude(FALSE)
              ELSE \E posted, like, retweet \in BOOLEAN :
                      /\ (like \/ retweet) => (posted /\ action_name = "reply")
                      /\ action_results' =
                            Append(action_results, Result(TRUE, posted, like \/ retweet))
                      /\ Conclude(posted)
    /\ exhausted_id' = IF slot = 1 /\ bot_should_stop /\ Exhausted
                       THEN tweet.id
                       ELSE exhausted_id
    /\ gpc' = "idle"
    /\ gen_ret' = NoneVal
    /\ attempt_log' = <<>>
    /\ last_raw' = NoneVal
    /\ UNCHANGED <<botVars, file, consecutive_no_new_tweets, new_tweets_found,
                   tweets_left, first_action_name, initial_key_index, gen_i,
                   exam_in_set, invoked, cycle_status, over_after_items,
                   first_write_after_over, saved_count>>
    /\ UNCHANGED <<action_runs, detected_language, last_io, scroll_count, restVars>>

\* lines 484-489 and 570-599 (reply), 501-506 and 528-555 (quote): the text
\* is composed; without a text, or with the stop flag set, the action ends;
\* otherwise it goes on to the surface, where the text is typed and
\* submitted and the surface decides.  A reply that was posted is followed
\* by like_tweet and by retweet_tweet, each on a draw of its own (lines
\* 587-588)
ActionAfterGenerate ==
    /\ pc = "gen_wait"
    /\ gpc = "done"
    /\ LET text == compose_reply(gen_ret, detect_language(tweet.text), required_keywords)
       IN  /\ text_out' = NoneVal
           /\ IF text \in {NoneVal, <<>>} \/ bot_should_stop
              THEN /\ action_results' = Append(action_results, Result(FALSE, FALSE, FALSE))
                   /\ Conclude(FALSE)
              ELSE \E posted, like, retweet \in BOOLEAN :
                      /\ (like \/ retweet) => (posted /\ action_name = "reply")
                      /\ action_results' =
                            Append(action_results, Result(TRUE, posted, like \/ retweet))
                      /\ Conclude(posted)
    /\ exhausted_id' = IF slot = 1 /\ bot_should_stop /\ Exhausted
                       THEN tweet.id
                       ELSE exhausted_id
    /\ gpc' = "idle"
    /\ gen_ret' = NoneVal
    /\ attempt_log' = <<>>
    /\ last_raw' = NoneVal
    /\ UNCHANGED <<botVars, file, consecutive_no_new_tweets, new_tweets_found,
                   tweets_left, first_action_name, initial_key_index, gen_i,
                   exam_in_set, invoked, cycle_status, over_after_items,
                   first_write_after_over, saved_count>>
    /\ UNCHANGED <<action_runs, detected_language, last_io, scroll_count, restVars>>

\* line 689: the stop flag ends the loop before anything is saved
CycleStop ==
    /\ pc = "after_for"
    /\ bot_should_stop
    /\ pc' = "final"
    /\ cycle_status' = "stopped"
    /\ UNCHANGED <<botVars, file, processed_tweets, consecutive_no_new_tweets,
                   new_tweets_found, tweets_left, tweet, first_action_name, slot,
                   action_name, genVars, text_out, detected_language, exam_in_set, invoked, last_added,
                   over_after_items, first_write_after_over, saved_count>>
    /\ UNCHANGED itemVars
    /\ UNCHANGED <<traceVars, restVars>>

\* a variant whose save lets the error of a failed write out, to the handler
\* of line 705
CycleSave_save_raises ==
    /\ pc = "after_for"
    /\ ~bot_should_stop
    /\ new_tweets_found
    /\ \E written \in BOOLEAN :
        /\ Save(processed_tweets, written)
        /\ consecutive_no_new_tweets' = IF written THEN 0 ELSE consecutive_no_new_tweets
        /\ pc' = IF written THEN "truncate" ELSE "recover"
    /\ UNCHANGED <<botVars, processed_tweets, new_tweets_found, tweets_left, tweet,
                   first_action_name, slot, action_name, genVars, text_out, detected_language,
                   exam_in_set, invoked, last_added, cycle_status, over_after_items>>
    /\ UNCHANGED itemVars
    /\ UNCHANGED <<scroll_count, action_results, exhausted_id, restVars>>

\* lines 691-693: new items were found
CycleSave ==
    /\ pc = "after_for"
    /\ ~bot_should_stop
    /\ new_tweets_found
    /\ \E written \in BOOLEAN : Save(processed_tweets, written)
    /\ consecutive_no_new_tweets' = 0
    /\ pc' = "truncate"
    /\ UNCHANGED <<botVars, processed_tweets, new_tweets_found, tweets_left, tweet,
                   first_action_name, slot, action_name, genVars, text_out, detected_language,
                   exam_in_set, invoked, last_added, cycle_status, over_after_items>>
    /\ UNCHANGED itemVars
    /\ UNCHANGED <<scroll_count, action_results, exhausted_id, restVars>>

\* a variant of line 697 without the cap
ScrollCount_uncapped(consecutive) == 5 + consecutive

\* line 697: min(5 + consecutive_no_new_tweets, 15)
ScrollCount(consecutive) ==
    IF 5 + consecutive < 15 THEN 5 + consecutive ELSE 15

\* lines 694-697: no new item; scroll_feed may raise, which ends the cycle
\* in the handler of line 705
CycleIdle ==
    /\ pc = "after_for"
    /\ ~bot_should_stop
    /\ ~new_tweets_found
    /\ consecutive_no_new_tweets < idle_limit
    /\ consecutive_no_new_tweets' = consecutive_no_new_tweets + 1
    /\ scroll_count' = ScrollCount(consecutive_no_new_tweets')
    /\ \E scrolled \in BOOLEAN : pc' = IF scrolled THEN "truncate" ELSE "recover"
    /\ UNCHANGED <<botVars, file, processed_tweets, new_tweets_found, tweets_left,
                   tweet, first_action_name, slot, action_name, genVars, text_out, detected_language,
                   obsVars>>
    /\ UNCHANGED itemVars
    /\ UNCHANGED <<last_io, action_results, exhausted_id, restVars>>

\* a variant that truncates without saving
CycleTruncate_unsaved ==
    /\ pc = "truncate"
    /\ IF NeedsTruncation(processed_tweets)
       THEN processed_tweets' \in TruncationResults(processed_tweets)
       ELSE UNCHANGED processed_tweets
    /\ pc' = "while"
    /\ cycle_status' = "completed"
    /\ UNCHANGED <<botVars, file, consecutive_no_new_tweets, new_tweets_found,
                   tweets_left, tweet, first_action_name, slot, action_name, genVars,
                   text_out, detected_language, exam_in_set, invoked, last_added, over_after_items,
                   first_write_after_over, saved_count>>
    /\ UNCHANGED itemVars
    /\ UNCHANGED <<traceVars, restVars>>

\* lines 699-703: the set is truncated and saved when it is too large; the
\* cycle is complete
CycleTruncate ==
    /\ pc = "truncate"
    /\ IF NeedsTruncation(processed_tweets)
       THEN /\ processed_tweets' \in TruncationResults(processed_tweets)
            /\ \E written \in BOOLEAN : Save(processed_tweets', written)
       ELSE UNCHANGED <<processed_tweets, file, saved_count, first_write_after_over,
                        last_io>>
    /\ pc' = "while"
    /\ cycle_status' = "completed"
    /\ UNCHANGED <<botVars, consecutive_no_new_tweets, new_tweets_found, tweets_left,
                   tweet, first_action_name, slot, action_name, genVars, text_out, detected_language,
                   exam_in_set, invoked, last_added, over_after_items>>
    /\ UNCHANGED itemVars
    /\ UNCHANGED <<scroll_count, action_results, exhausted_id, restVars>>

\* an exception or interrupt leaves monitor_feed: its frame and those of its
\* callees are gone.  processed_tweets keeps the value the local had, the
\* set the run held in memory when it ended
LeaveMonitorFeed(status) ==
    /\ bot_should_stop' = TRUE
    /\ cycle_status' = status
    /\ consecutive_no_new_tweets' = 0
    /\ new_tweets_found' = FALSE
    /\ tweets_left' = 0
    /\ tweet' = NoTweet
    /\ first_action_name' = "none"
    /\ slot' = 0
    /\ action_name' = "none"
    /\ first_action_success' = FALSE
    /\ gpc' = "idle"
    /\ initial_key_index' = 0
    /\ gen_i' = 0
    /\ gen_ret' = NoneVal
    /\ attempt_log' = <<>>
    /\ last_raw' = NoneVal
    /\ exam_in_set' = FALSE
    /\ invoked' = {}
    /\ last_added' = NoId
    /\ over_after_items' = FALSE
    /\ first_write_after_over' = 0
    /\ saved_count' = 0
    /\ action_runs' = <<>>
    /\ handled' = {}
    /\ UNCHANGED <<gemini_api_keys, current_api_key_index, required_keywords,
                   search_mode, current_keyword, file, processed_tweets, text_out,
                   detected_language>>
    /\ last_io' = "none"
    /\ scroll_count' = 0
    /\ action_results' = <<>>
    /\ exhausted_id' = NoId
    /\ UNCHANGED restVars

\* lines 705-707: the handler scrolls and the loop goes on
Recover ==
    /\ pc = "recover"
    /\ pc' = "while"
    /\ cycle_status' = "recovered"
    /\ UNCHANGED <<botVars, file, processed_tweets, consecutive_no_new_tweets,
                   new_tweets_found, tweets_left, tweet, first_action_name, slot,
                   action_name, genVars, text_out, detected_language, exam_in_set,
                   invoked, last_added, over_after_items, first_write_after_over,
                   saved_count, itemVars>>
    /\ scroll_count' = 10
    /\ UNCHANGED <<last_io, action_results, exhausted_id, restVars>>

\* line 707: scroll_feed raises in the handler too (the browser is gone, say);
\* the exception leaves monitor_feed and main catches it (lines 798-804): the
\* stop flag is set, the browser is closed and the process exits
RecoverRaises ==
    /\ pc = "recover"
    /\ pc' = "crashed"
    /\ LeaveMonitorFeed("crashed")

\* a KeyboardInterrupt is raised while monitor_feed runs (in a sleep, a wait
\* or any other statement).  It is no Exception: the handlers of lines 461,
\* 595 and 705 let it pass, it leaves monitor_feed and main handles it (lines
\* 795-797 and 801-804): the stop flag is set, the browser is closed and the
\* process exits.  Where a bare except swallows it (lines 419, 432) the run
\* goes on as if the element had not been found
KeyboardInterrupt ==
    /\ pc \in {"while", "for", "action", "gen_wait", "after_for", "truncate",
              "recover", "final"}
    /\ pc' = "interrupted"
    /\ LeaveMonitorFeed("interrupted")

\* lines 709-711
FinalSave ==
    /\ pc = "final"
    /\ \E written \in BOOLEAN : Save(processed_tweets, written)
    /\ pc' = "done"
    /\ UNCHANGED <<botVars, processed_tweets, consecutive_no_new_tweets,
                   new_tweets_found, tweets_left, tweet, first_action_name, slot,
                   action_name, genVars, text_out, detected_language, exam_in_set, invoked, last_added,
                   cycle_status, over_after_items>>
    /\ UNCHANGED itemVars
    /\ UNCHANGED <<scroll_count, action_results, exhausted_id, restVars>>

Next ==
    \/ MonitorStart
    \/ LoopExit
    \/ Collect
    \/ ForEnd
    \/ SkipTweet
    \/ BeginTweet
    \/ ActionEndsInPrep
    \/ ActionCallsGenerate
    \/ GenStep(LoopBackendTexts)
    \/ ActionAfterGenerate
    \/ CycleStop
    \/ CycleSave
    \/ CycleIdle
    \/ CycleTruncate
    \/ Recover
    \/ RecoverRaises
    \/ KeyboardInterrupt
    \/ FinalSave

Spec == Init /\ [][Next]_vars

\* a run on the home feed with two credentials that begins without a file;
\* one idle cycle in a row is followed
InitFresh ==
    /\ gemini_api_keys = <<1, 2>>
    /\ current_api_key_index = 0
    /\ bot_should_stop \in BOOLEAN
    /\ required_keywords = <<(<<65>>)>>
    /\ search_mode = FALSE
    /\ current_keyword = NoneVal
    /\ file = NoFile
    /\ pc = "start"
    /\ tweet = NoTweet
    /\ text_out = NoneVal
    /\ InitLoopIdle
    /\ InitGenIdle
    /\ InitObs
    /\ idle_limit = 1
    /\ current_typing_speed = MinTypingSpeed
    /\ typing_rhythm_changes = 2

\* most consecutive idle cycles followed in a run of SpecIdle: one more than
\* the cap of line 697 takes
MaxIdleRun == 11

\* a run on the home feed with two credentials that begins without a file and
\* is followed through MaxIdleRun idle cycles in a row
InitIdle ==
    /\ gemini_api_keys = <<1, 2>>
    /\ current_api_key_index = 0
    /\ bot_should_stop \in BOOLEAN
    /\ required_keywords = <<(<<65>>)>>
    /\ search_mode = FALSE
    /\ current_keyword = NoneVal
    /\ file = NoFile
    /\ pc = "start"
    /\ tweet = NoTweet
    /\ text_out = NoneVal
    /\ InitLoopIdle
    /\ InitGenIdle
    /\ InitObs
    /\ idle_limit = MaxIdleRun
    /\ current_typing_speed = MinTypingSpeed
    /\ typing_rhythm_changes = 2

SpecIdle == InitIdle /\ [][Next]_vars

\* every blocking call of the loop (a sleep, a wait of the surface, a backend
\* call, a write of the file) returns: a run that can take a step takes one
SpecFair == InitFresh /\ [][Next]_vars /\ WF_vars(Next)

\* C1: an item whose id is in processed_tweets when it is examined has
\* neither action invoked on it: control never enters reply_to_tweet or
\* quote_tweet for it.
C1_ProcessedNeverActedOn ==
    exam_in_set => (invoked = {} /\ pc \notin {"action", "gen_wait"})

\* an id processed earlier in the cycle is met again and skipped
C1_Witness ==
    /\ exam_in_set
    /\ pc = "for"
    /\ tweet.id \in processed_tweets
    /\ last_added = tweet.id

\* C8: after a cycle that ran to its end, processed_tweets holds at most
\* Retention ids.
C8_RetentionBound ==
    cycle_status = "completed" => Cardinality(processed_tweets) <= Retention

C8_Witness ==
    /\ cycle_status = "completed"
    /\ over_after_items
    /\ new_tweets_found
    /\ Cardinality(processed_tweets) = Retention

\* C9: after a truncation the id added most recently is still in
\* processed_tweets.
C9_MostRecentRetained ==
    (cycle_status = "completed" /\ over_after_items /\ last_added # NoId)
    => last_added \in processed_tweets

\* C10 as stated: when processed_tweets holds more than Retention ids after
\* the items of a cycle, the next set written to the file holds exactly
\* Retention ids.
C10_NextWriteIsTruncated ==
    over_after_items => first_write_after_over \in {0, Retention}

\* C10 as amended: when processed_tweets holds more than Retention ids after
\* the items of a cycle and the cycle runs to its end, the set is truncated
\* to exactly Retention ids and that set is the last one handed to
\* save_processed_tweets in the cycle; a set written before it in the cycle
\* (line 692) is the untruncated one.
C10_TruncatedSetSavedLast ==
    (cycle_status = "completed" /\ over_after_items)
    => /\ saved_count = Retention
       /\ Cardinality(processed_tweets) = Retention
       /\ \/ first_write_after_over \in {0, Retention}
          \/ new_tweets_found /\ first_write_after_over > Retention

C10_Witness ==
    /\ cycle_status = "completed"
    /\ over_after_items
    /\ new_tweets_found
    /\ first_write_after_over = Retention + 1
    /\ saved_count = Retention
    /\ file = processed_tweets

\* the names of the actions run on the item being iterated
ActionsRun == [j \in 1..Len(action_runs) |-> action_runs[j].action]

\* the for loop has finished with the item it took up last
ItemConcluded == slot = 0 /\ action_runs # <<>>

\* C11: when the first action of an item did not succeed, the second action
\* is not run on it, its id is in processed_tweets once the item is
\* finished, and no item is taken up a second time in the cycle.
C11_PrimaryFailureEndsItem ==
    /\ (ItemConcluded /\ ~first_action_success)
       => /\ ActionsRun = <<first_action_name>>
          /\ invoked \subseteq {first_action_name}
          /\ tweet.id \in processed_tweets
          /\ last_added = tweet.id
    /\ slot >= 1 => (tweet.id \notin handled /\ tweet.id \notin processed_tweets)
    /\ slot = 1 => Len(action_runs) <= 1

\* a quote as first action failed after its generation call, and the cycle
\* has items left
C11_Witness ==
    /\ pc = "for"
    /\ ItemConcluded
    /\ ~first_action_success
    /\ ActionsRun = <<"quote">>
    /\ invoked = {"quote"}
    /\ tweet.id \in processed_tweets
    /\ tweets_left >= 1

\* C12: when the first action of an item succeeded, the second action is
\* run exactly once and the item's id is in processed_tweets once the item
\* is finished, whatever the second action's outcome.
C12_SecondaryRunsOnceAndRecords ==
    /\ (ItemConcluded /\ first_action_success)
       => /\ ActionsRun = <<first_action_name, OtherAction(first_action_name)>>
          /\ tweet.id \in processed_tweets
          /\ last_added = tweet.id
    /\ slot = 2 => (first_action_success /\ Len(action_runs) \in {1, 2})

\* the second action ran into the exhaustion of the pool
C12_Witness ==
    /\ pc = "for"
    /\ ItemConcluded
    /\ first_action_success
    /\ ActionsRun = <<"quote", "reply">>
    /\ invoked = {"quote", "reply"}
    /\ bot_should_stop
    /\ tweet.id \in processed_tweets

\* C13 as stated: an item without id is not recorded, and an item whose text
\* is absent when its first action fetches it is not recorded either.
C13_AbsentTextNotRecorded ==
    /\ NoId \notin processed_tweets
    /\ (ItemConcluded /\ action_runs[1].text = "absent")
       => tweet.id \notin processed_tweets

\* C13 as amended: an item without id is skipped, no action runs on it and
\* nothing is recorded for it; an item whose text is absent when its first
\* action fetches it has that action end without a generation call and
\* without success, no second action, and its id recorded in
\* processed_tweets (line 687).
C13_AbsentTextEndsItemRecorded ==
    /\ NoId \notin processed_tweets
    /\ tweet.id = NoId => (slot = 0 /\ action_runs = <<>> /\ invoked = {})
    /\ (action_runs # <<>> /\ action_runs[1].text = "absent")
       => /\ pc # "gen_wait"
          /\ ~first_action_success
          /\ Len(action_runs) = 1
          /\ invoked \subseteq {"reply"}
          /\ ItemConcluded => tweet.id \in processed_tweets

C13_Witness ==
    /\ pc = "for"
    /\ ItemConcluded
    /\ action_runs = <<[action |-> "reply", text |-> "absent"]>>
    /\ invoked = {"reply"}
    /\ tweet.id \in processed_tweets
    /\ last_added = tweet.id

\* line 567: the loop runs on the results of a keyword search
KeywordFiltered == search_mode /\ current_keyword \notin {NoneVal, <<>>}

\* C14: in keyword-filtered mode no response is composed (and so none is
\* submitted) for an item whose text does not contain the filter keyword,
\* whichever of the two actions runs.
C14_KeywordFilterGatesBothActions ==
    (KeywordFiltered /\ pc = "gen_wait")
    => contains_keyword(tweet.text, current_keyword)

\* monitor_feed has been left: by its last line, by an exception or by an
\* interrupt
MonitorFeedLeft == pc \in {"done", "crashed", "interrupted"}

\* C15: no exception raised inside a cycle ends the loop: monitor_feed is
\* never left by an exception.
C15_ExceptionNeverEndsLoop == pc # "crashed"

\* the ids of the file
FileIds == IF file = NoFile THEN {} ELSE file

\* C16: whenever monitor_feed has been left, on exhaustion of the pool or
\* on a keyboard interrupt, the final save of lines 709-711 has run, or the
\* file holds every id of the set already.
C16_FinalSetWrittenOnTermination ==
    MonitorFeedLeft => (pc = "done" \/ processed_tweets \subseteq FileIds)


\* C22: errors of the durable file never stop the run.  load_processed_tweets
\* returns the empty set when the file is missing or unreadable and the loop
\* is entered as usual; a save_processed_tweets whose write fails raises
\* nothing (control is where a successful save leaves it, never in the
\* handler of line 705), leaves the set in memory as it was handed over, and
\* leaves the stop flag alone, so that the loop goes on.
C22_PersistenceErrorsNeverStop ==
    /\ last_io \in {"load_missing", "load_unreadable"}
       => (processed_tweets = {} /\ pc \in {"while", "final"})
    /\ last_io = "save_failed"
       => /\ pc \in {"truncate", "while", "done"}
          /\ saved_count = Cardinality(processed_tweets)
          /\ pc \in {"truncate", "while"} => ~bot_should_stop

\* the save of a cycle failed (nothing is in the file) and the cycle was
\* completed, the loop being about to begin the next one
C22_Witness ==
    /\ last_io = "save_failed"
    /\ pc = "while"
    /\ cycle_status = "completed"
    /\ processed_tweets # {}
    /\ file = NoFile
    /\ ~bot_should_stop


\* monitor_feed is past its while loop, or was left by an exception
LoopLeft == pc \in {"final", "done", "crashed", "interrupted"}

\* C23: cancellation is cooperative.  With the stop flag set no further item
\* is begun (the test of line 635) and no further cycle is begun (the test
\* of line 629), and, the blocking calls returning, the while loop is left
\* in the end.
C23_CooperativeCancellation ==
    /\ [][bot_should_stop => /\ ~(pc = "for" /\ pc' = "action")
                             /\ ~(pc = "while" /\ pc' = "for")]_vars
    /\ (bot_should_stop ~> LoopLeft)

\* the flag was raised while items of the cycle's list were left, and the
\* loop was left without them
C23_Witness ==
    /\ bot_should_stop
    /\ pc = "final"
    /\ cycle_status = "stopped"
    /\ tweets_left > 0


\* C24: a cycle that completes without an exception and without the stop
\* flag ends, when a new item was found, with processed_tweets handed to
\* save_processed_tweets and the idle counter at 0; otherwise the idle counter
\* is one more than before and the feed was scrolled by min(5 + counter, 15)
\* steps: 5 + counter steps up to a counter of 10 and 15 steps from there on,
\* never more.
C24_IdleCounterAndScroll ==
    /\ []((pc = "while" /\ cycle_status = "completed")
          => IF new_tweets_found
             THEN /\ consecutive_no_new_tweets = 0
                  /\ last_io \in {"written", "save_failed"}
                  /\ saved_count >= 1
             ELSE /\ consecutive_no_new_tweets >= 1
                  /\ consecutive_no_new_tweets <= 10
                        => scroll_count = 5 + consecutive_no_new_tweets
                  /\ consecutive_no_new_tweets >= 10 => scroll_count = 15
                  /\ scroll_count <= 15)
    /\ [][(pc = "after_for" /\ pc' = "truncate" /\ ~new_tweets_found)
            => consecutive_no_new_tweets' = consecutive_no_new_tweets + 1]_vars

\* the eleventh idle cycle in a row: 5 + 11 steps are cut to 15
C24_Witness ==
    /\ pc = "while"
    /\ cycle_status = "completed"
    /\ ~new_tweets_found
    /\ consecutive_no_new_tweets = 11
    /\ scroll_count = 15


\* the j-th action run on the item was followed by like_tweet or retweet_tweet
Engaged(j) == action_results[j].engaged

\* C25 as stated: like_tweet and retweet_tweet are attempted on an item only
\* after a reply to it that succeeded as the item's first action; never
\* after a reply that failed, and never on an item whose first action was
\* the quote.
C25_EngagedOnlyAfterPrimaryReply ==
    \A j \in 1..Len(action_results) :
        Engaged(j) => /\ action_runs[j].action = "reply"
                      /\ action_results[j].posted
                      /\ first_action_name = "reply"

\* C25, amended: like_tweet and retweet_tweet are attempted on an item only
\* after a reply to it that succeeded, whether the reply was the item's first
\* action or its second action after a quote that succeeded; they are never
\* attempted after a reply that failed, and never after a quote.
C25_EngagedOnlyAfterPostedReply ==
    /\ Len(action_results) <= Len(action_runs)
    /\ \A j \in 1..Len(action_results) :
        Engaged(j) => /\ action_runs[j].action = "reply"
                      /\ action_results[j].posted
                      /\ j = 2 => (first_action_name = "quote" /\ action_results[1].posted)

\* the quote was the first action and succeeded; the reply that followed
\* was posted and liked or retweeted
C25_Witness ==
    /\ first_action_name = "quote"
    /\ Len(action_results) = 2
    /\ action_results[1].posted
    /\ action_results[2].posted
    /\ Engaged(2)


(***************************************************************************)
(* SpecTyping: type_like_human, get_dynamic_typing_delay and               *)
(* update_typing_speed invoked in any order.  The speed is counted in      *)
(* thousandths of a second per character.                                  *)
(***************************************************************************)
\* cap of typing_rhythm_changes
MaxRhythm == 12

\* line 170: random.randint(5, 10)
RhythmDivisors == 5..10

\* line 171: random.uniform(-0.002, 0.002), in thousandths
SpeedChanges == -2..2

\* lines 65 and 207: random.uniform(0.03, 0.04), in thousandths
TypingSpeeds == MinTypingSpeed..MaxTypingSpeed

\* a variant of line 172 without max and min
ChangedSpeed_unclamped(speed, speed_change) == speed + speed_change

\* line 172: max(0.03, min(0.04, current_typing_speed + speed_change))
ChangedSpeed(speed, speed_change) ==
    LET changed == speed + speed_change
        capped  == IF changed < MaxTypingSpeed THEN changed ELSE MaxTypingSpeed
    IN  IF capped > MinTypingSpeed THEN capped ELSE MinTypingSpeed

\* lines 65-66
InitTyping ==
    /\ gemini_api_keys = <<1>>
    /\ current_api_key_index = 0
    /\ bot_should_stop = FALSE
    /\ required_keywords = <<>>
    /\ search_mode = FALSE
    /\ current_keyword = NoneVal
    /\ file = NoFile
    /\ pc = "constructed"
    /\ tweet = NoTweet
    /\ text_out = NoneVal
    /\ InitLoopIdle
    /\ InitGenIdle
    /\ InitObs
    /\ idle_limit = 0
    /\ current_typing_speed \in TypingSpeeds
    /\ typing_rhythm_changes = 2

TypingFrame == UNCHANGED <<botVars, file, processed_tweets, consecutive_no_new_tweets,
                           new_tweets_found, tweets_left, tweet, first_action_name,
                           slot, action_name, genVars, detected_language, text_out,
                           obsVars, itemVars, traceVars, idle_limit>>

\* lines 168-173
update_typing_speed ==
    /\ typing_rhythm_changes < MaxRhythm
    /\ \E divisor \in RhythmDivisors, speed_change \in SpeedChanges :
        current_typing_speed' =
            IF typing_rhythm_changes % divisor = 0
            THEN ChangedSpeed(current_typing_speed, speed_change)
            ELSE current_typing_speed
    /\ typing_rhythm_changes' = typing_rhythm_changes + 1

\* update_typing_speed is invoked by itself
UpdateTypingSpeed ==
    /\ update_typing_speed
    /\ pc' = "updated"
    /\ TypingFrame

\* lines 176-187: the speed is updated and is the base of the delay
\* returned, whatever the character type
GetDynamicTypingDelay ==
    /\ update_typing_speed
    /\ pc' = "delayed"
    /\ TypingFrame

\* lines 205-208: type_like_human draws the speed of its text and clears the
\* counter; the delays of its characters are steps of GetDynamicTypingDelay
TypeLikeHuman ==
    /\ current_typing_speed' \in TypingSpeeds
    /\ typing_rhythm_changes' = 0
    /\ pc' = "typing"
    /\ TypingFrame

NextTyping == TypeLikeHuman \/ GetDynamicTypingDelay \/ UpdateTypingSpeed

SpecTyping == InitTyping /\ [][NextTyping]_vars

\* C26: after any sequence of invocations of get_dynamic_typing_delay,
\* update_typing_speed and type_like_human, current_typing_speed is within
\* the band of 0.03 to 0.04 seconds per character (30 to 40 thousandths,
\* the changes being -2 to 2 thousandths).
C26_TypingSpeedInBand ==
    /\ current_typing_speed >= 30
    /\ current_typing_speed <= 40

\* six delays into a text the speed is at the upper edge of the band
C26_Witness ==
    /\ pc = "delayed"
    /\ typing_rhythm_changes = 6
    /\ current_typing_speed = MaxTypingSpeed


\* C27: the stop flag is monotonic: once bot_should_stop is true, no step of
\* the run (a step of a generation call, a rotation, a configuration, the
\* processing of an item, a step of the loop) sets it back to false.
C27_StopFlagMonotonic == [][bot_should_stop => bot_should_stop']_vars

\* the flag was raised inside a cycle; the loop was left and the final save
\* made with the flag still set
C27_Witness ==
    /\ bot_should_stop
    /\ pc = "done"
    /\ cycle_status = "stopped"
    /\ last_io \in {"written", "save_failed"}


\* C28: with the stop flag set no submission is started on any item: a
\* generation call that ends with the flag set returns None, and no action
\* goes on to the surface to type and submit a text while the flag is set.
C28_NoSubmissionAfterStop ==
    /\ []((gpc = "done" /\ bot_should_stop) => gen_ret = NoneVal)
    /\ [][(/\ Len(action_results') = Len(action_results) + 1
            /\ action_results'[Len(action_results')].touched)
           => ~bot_should_stop]_vars

\* the second action of an item read the text and asked for a reply or a
\* quote; the flag was raised in the call and the action ended before the
\* surface
C28_Witness ==
    /\ bot_should_stop
    /\ pc = "for"
    /\ Len(action_results) = 2
    /\ action_runs[2].text = "present"
    /\ action_results[1].touched
    /\ ~action_results[2].touched


\* C29: when the exhaustion of the pool raises the stop flag while the first
\* action of an item is composing its text, the item's id is added to
\* processed_tweets all the same, although no action went on to the surface
\* for the item; the loop is left with the id in the set (nothing truncates
\* the set on the way), the set handed to the final save_processed_tweets
\* holds it, and so does the file when that write succeeds.  (A run that an
\* interrupt or the exception of line 707 takes out of monitor_feed makes no
\* final save: see C16.)
C29_ExhaustedItemRecordedAndSaved ==
    exhausted_id # NoId
    => /\ bot_should_stop
       /\ exhausted_id \in processed_tweets
       /\ pc \in {"for", "after_for", "final", "done"}
       /\ pc = "for" => \A j \in 1..Len(action_results) : ~action_results[j].touched
       /\ pc = "done" => /\ saved_count = Cardinality(processed_tweets)
                         /\ last_io = "written" => exhausted_id \in file

\* the run ended with the final save written: the file holds the id of the
\* item the pool was exhausted on
C29_Witness ==
    /\ exhausted_id # NoId
    /\ pc = "done"
    /\ last_io = "written"
    /\ exhausted_id \in file
    /\ Len(gemini_api_keys) = 2

=============================================================================
